---- MODULE Spec2Model ----
(***************************************************************************)
(* TruthGuard: the content-analysis orchestration core.                    *)
(*                                                                         *)
(*   - the chat-bot VerificationSystem (selectAgents, verifyContent,       *)
(*     processAgent, calculateOverallResult, cleanupOldVerifications)      *)
(*   - the web AgentSelector.determineActiveAgents                         *)
(*                                                                         *)
(* JavaScript runs each callback to completion, so one action is one       *)
(* callback: the synchronous prefix of verifyContent up to its await, and  *)
(* the settling of one processAgent promise together with every            *)
(* continuation that settling releases.                                    *)
(***************************************************************************)
EXTENDS Integers, Sequences, FiniteSets, TLC

VARIABLES
    activeVerifications,  \* VerificationSystem.activeVerifications: id -> record
    totalVerifications,   \* VerificationSystem.totalVerifications
    calls,                \* one entry per invocation of verifyContent
    now,                  \* Date.now(), in minutes
    cleanupOutcome,       \* how the call of cleanupOldVerifications made in this step ended
    agentResults,         \* aggregator study: the list passed to calculateOverallResult
    overallResult,        \* aggregator study: what calculateOverallResult returned, if called
    previousResult,       \* aggregator study: what the call before the last returned
    clockMs,              \* latency study: Date.now(), in milliseconds
    timers,               \* latency study: the pending setTimeout of each analyzer's sleep
    timedRun,             \* latency study: the one verification that is timed
    isProcessing,         \* web UI: VerificationApp.isProcessing
    runs,                 \* web UI: the runs of VerificationApp.analyzeContent
    processingState,      \* web UI: VerificationSystem.processingState
    webActiveAgents,      \* web UI: VerificationSystem.activeAgents
    agentStatus,          \* web UI: AGENTS[id].status
    agentProgress,        \* web UI: AGENTS[id].progress
    details,              \* what the last handleDetailsCallback showed, and for which id
    typed,                \* selector study: the content string under test
    selected,             \* selector study: result of selectAgents(typed), if computed
    activeAgents          \* selector study: result of determineActiveAgents(typed), if computed

vars == <<activeVerifications, totalVerifications, calls, now, cleanupOutcome,
          agentResults, overallResult, previousResult, details,
          clockMs, timers, timedRun,
          isProcessing, runs, processingState, webActiveAgents, agentStatus, agentProgress,
          typed, selected, activeAgents>>

orchVars == <<activeVerifications, totalVerifications, calls, now, cleanupOutcome>>
selVars  == <<typed, selected, activeAgents>>
aggVars  == <<agentResults, overallResult, previousResult>>
qryVars  == <<details>>
\* the variables of the studies that the core operations never write
timeVars == <<clockMs, timers, timedRun>>
webVars  == <<isProcessing, runs, processingState, webActiveAgents, agentStatus, agentProgress>>
sideVars == <<qryVars, timeVars, webVars>>

(***************************************************************************)
(* Bounds                                                                  *)
(***************************************************************************)
MaxWords == 4     \* fragments per content string in the selector study
MaxCalls == 2     \* invocations of verifyContent
MaxTime  == 61    \* last clock value, minutes

NoValue == "undefined"    \* a JavaScript undefined / absent property

(***************************************************************************)
(* Strings                                                                 *)
(***************************************************************************)
UpperChars == "ABCDEFGHIJKLMNOPQRSTUVWXYZ"
LowerChars == "abcdefghijklmnopqrstuvwxyz"

LowerChar(c) ==
    IF \E i \in 1..26 : SubSeq(UpperChars, i, i) = c
    THEN LET i == CHOOSE j \in 1..26 : SubSeq(UpperChars, j, j) = c
         IN  SubSeq(LowerChars, i, i)
    ELSE c

RECURSIVE LowerFrom(_, _)
LowerFrom(str, i) ==
    IF i > Len(str) THEN ""
    ELSE LowerChar(SubSeq(str, i, i)) \o LowerFrom(str, i + 1)

\* String.prototype.toLowerCase
toLowerCase(str) == LowerFrom(str, 1)

\* String.prototype.includes
includes(str, k) ==
    \E i \in 1..(Len(str) - Len(k) + 1) : SubSeq(str, i, i + Len(k) - 1) = k

\* keywords.some(keyword => str.includes(keyword))
some(kws, str) == \E k \in kws : includes(str, k)

IsWhitespace(c) == c = " "

\* contentLower.match(/https?:\/\/[^\s]+/)
MatchesUrl(str) ==
    \E p \in {"http://", "https://"} :
        \E i \in 1..(Len(str) - Len(p)) :
            /\ SubSeq(str, i, i + Len(p) - 1) = p
            /\ ~IsWhitespace(SubSeq(str, i + Len(p), i + Len(p)))

Range(seq) == {seq[i] : i \in 1..Len(seq)}

(***************************************************************************)
(* Analyzer configuration                                                  *)
(***************************************************************************)
\* this.agents once the constructor has run: initialize() calls loadAgents(),
\* whose body has no await, so the six analyzers are assigned, in declaration
\* order, before the constructor returns; nothing assigns this.agents later
agents == <<"news", "fact", "scam", "phishing", "image", "video">>

\* loadAgents: keywords of each analyzer of the bot
keywords ==
    [a \in Range(agents) |->
        CASE a = "news"     -> {"breaking", "news", "report", "journalist", "headline", "media", "press"}
          [] a = "fact"     -> {"study", "research", "scientist", "data", "percent", "statistics", "academic"}
          [] a = "scam"     -> {"winner", "lottery", "money", "urgent", "fee", "prize", "cash", "inheritance"}
          [] a = "phishing" -> {"click", "link", "login", "account", "verify", "security", "password", "update"}
          [] a = "image"    -> {"photo", "image", "picture", "ai-generated", "deepfake", "manipulated"}
          [] a = "video"    -> {"video", "deepfake", "ai-generated", "manipulated", "synthetic"}]

\* keyword.toLowerCase(), for every keyword of every analyzer
keywordsLower == [a \in Range(agents) |-> {toLowerCase(k) : k \in keywords[a]}]

\* AgentSelector.determineActiveAgents: triggers, in Object.entries order
TriggerIds == <<"news", "fact", "scam", "phishing", "image", "video">>

triggers ==
    [a \in Range(TriggerIds) |->
        CASE a = "news"     -> {"news", "breaking", "report", "journalist", "media", "press", "headline", "story"}
          [] a = "fact"     -> {"research", "study", "scientist", "professor", "university", "published",
                                "data", "statistics", "percent", "%", "climate", "medical", "health"}
          [] a = "scam"     -> {"winner", "lottery", "prize", "money", "fee", "transfer", "bank", "account",
                                "urgent", "limited time", "congratulations", "claim", "inheritance"}
          [] a = "phishing" -> {"click", "link", "http", "www", "login", "password", "secure", "verify",
                                "account", "suspended", "expired"}
          [] a = "image"    -> {"image", "photo", "picture", "edited", "photoshop", "fake photo", "manipulated"}
          [] a = "video"    -> {"video", "footage", "clip", "deepfake", "recorded", "filmed"}]

MaxActive == 4    \* determineActiveAgents: limit to 4 agents maximum

(***************************************************************************)
(* Agent selection                                                         *)
(***************************************************************************)
\* this.agents.find(a => a.id === id), NoValue when there is none
find(agentList, id) ==
    IF \E i \in 1..Len(agentList) : agentList[i] = id THEN id ELSE NoValue

Truthy(x) == x # NoValue

\* selectAgents without its default pair
selectAgentsNoDefault(content) ==
    LET contentLower == toLowerCase(content)
        hasKeyword(a) == some(keywordsLower[a], contentLower)
    IN  SelectSeq(agents, hasKeyword)

\* VerificationSystem.selectAgents (bot)
selectAgents(content) ==
    LET contentLower == toLowerCase(content)
        hasKeyword(a) == some(keywordsLower[a], contentLower)
        matched  == SelectSeq(agents, hasKeyword)
        withDflt == IF Len(matched) = 0
                    THEN <<find(agents, "news"), find(agents, "fact")>>
                    ELSE matched
    IN  SelectSeq(withDflt, Truthy)   \* filter(Boolean)

\* the loop over Object.entries(triggers) of determineActiveAgents
RECURSIVE pushTriggered(_, _, _)
pushTriggered(active, ids, contentLower) ==
    IF ids = <<>> THEN active
    ELSE LET a == Head(ids)
             next == IF some(triggers[a], contentLower) /\ a \notin Range(active)
                     THEN Append(active, a)
                     ELSE active
         IN  pushTriggered(next, Tail(ids), contentLower)

\* determineActiveAgents falling back to the fact analyzer before the news one
determineActiveAgentsFactFirst(content) ==
    LET contentLower == toLowerCase(content)
        urlFirst == IF MatchesUrl(contentLower) THEN <<"phishing">> ELSE <<>>
        matched  == pushTriggered(urlFirst, TriggerIds, contentLower)
        withDflt == IF Len(matched) = 0 THEN <<"fact", "news">> ELSE matched
    IN  IF Len(withDflt) > MaxActive THEN SubSeq(withDflt, 1, MaxActive) ELSE withDflt

\* AgentSelector.determineActiveAgents (web)
determineActiveAgents(content) ==
    LET contentLower == toLowerCase(content)
        urlFirst == IF MatchesUrl(contentLower) THEN <<"phishing">> ELSE <<>>
        matched  == pushTriggered(urlFirst, TriggerIds, contentLower)
        withDflt == IF Len(matched) = 0 THEN <<"news", "fact">> ELSE matched
    IN  IF Len(withDflt) > MaxActive THEN SubSeq(withDflt, 1, MaxActive) ELSE withDflt

(***************************************************************************)
(* Optional values: a property that may be absent from a JavaScript object *)
(***************************************************************************)
None == <<>>
Some(x) == <<x>>
IsSome(o) == o # <<>>
Get(o) == o[1]

(***************************************************************************)
(* Selector study: content strings built from fragments                    *)
(***************************************************************************)
Fragments == {"Breaking", "study", "lottery", "account", "https://x.io", "deepfake", "hello"}

WordCount(str) ==
    IF str = "" THEN 0
    ELSE 1 + Cardinality({i \in 1..Len(str) : SubSeq(str, i, i) = " "})

\* the user extends the content by one fragment
Type(w) ==
    /\ WordCount(typed) < MaxWords
    /\ typed' = (IF typed = "" THEN w ELSE typed \o " " \o w)
    /\ selected' = None
    /\ activeAgents' = None
    /\ UNCHANGED orchVars
    /\ UNCHANGED <<aggVars, sideVars>>

\* the bot selects analyzers for the content
SelectBot ==
    /\ selected = None
    /\ selected' = Some(selectAgents(typed))
    /\ UNCHANGED <<typed, activeAgents>>
    /\ UNCHANGED orchVars
    /\ UNCHANGED <<aggVars, sideVars>>

\* the web UI selects analyzers for the content
SelectWeb ==
    /\ activeAgents = None
    /\ activeAgents' = Some(determineActiveAgents(typed))
    /\ UNCHANGED <<typed, selected>>
    /\ UNCHANGED orchVars
    /\ UNCHANGED <<aggVars, sideVars>>

(***************************************************************************)
(* Map: entries in insertion order, as a JavaScript Map keeps them         *)
(***************************************************************************)
MapHas(m, k) == \E i \in 1..Len(m) : m[i].key = k

MapGet(m, k) == m[CHOOSE i \in 1..Len(m) : m[i].key = k].value

\* a set that writes the value under every key of the Map
MapSetAll(m, k, v) ==
    IF MapHas(m, k)
    THEN [i \in 1..Len(m) |-> [key |-> m[i].key, value |-> v]]
    ELSE Append([i \in 1..Len(m) |-> [key |-> m[i].key, value |-> v]],
                [key |-> k, value |-> v])

MapSet(m, k, v) ==
    IF MapHas(m, k)
    THEN [i \in 1..Len(m) |-> IF m[i].key = k THEN [key |-> k, value |-> v] ELSE m[i]]
    ELSE Append(m, [key |-> k, value |-> v])

MapDelete(m, k) == LET Other(e) == e.key # k IN SelectSeq(m, Other)

MapKeys(m) == {m[i].key : i \in 1..Len(m)}

(***************************************************************************)
(* Analyzer stub                                                           *)
(***************************************************************************)
\* Confidences are held in hundredths, so that 85 + Math.random() * 10 and
\* the mean of several confidences stay exact.
Scale == 100

\* Math.random(), in hundredths
RandomDraws == {0, 99}

\* loadScenarios
scenarios ==
    << [content |-> "Breaking: Scientists discover cure for diabetes using AI technology!",
        expectedResult |-> "FALSE", confidence |-> 95],
       [content |-> "Your bank account compromised! Click: https://secure-bank-update.fake/login",
        expectedResult |-> "MALICIOUS", confidence |-> 96],
       [content |-> "NASA announces new Mars mission scheduled for 2026",
        expectedResult |-> "TRUE", confidence |-> 87],
       [content |-> "Climate change causes 50% of wildfires! Learn more: https://climate-truth.info",
        expectedResult |-> "UNVERIFIED", confidence |-> 65],
       [content |-> "Congratulations! You won $1M lottery. Send $500 processing fee to claim!",
        expectedResult |-> "SCAM", confidence |-> 99] >>

\* s.content.toLowerCase(), for every scenario
scenarioLower == [i \in 1..Len(scenarios) |-> toLowerCase(scenarios[i].content)]

\* getScenarioResponse
getScenarioResponse(agent, scenario) ==
    [verdict |-> scenario.expectedResult, confidence |-> scenario.confidence * Scale]

suspiciousPatterns ==
    {"click here", "urgent", "limited time", "act now", "congratulations",
     "you won", "lottery", "inheritance", "prince", "million dollars"}

\* getHeuristicResponse without the test of the analyzer
getHeuristicResponseAnyAgent(agent, content, random) ==
    LET contentLower == toLowerCase(content)
        hasSuspiciousPattern ==
            \E pattern \in suspiciousPatterns : includes(contentLower, pattern)
    IN  IF hasSuspiciousPattern
        THEN [verdict |-> "SUSPICIOUS", confidence |-> 85 * Scale + random * 10]
        ELSE [verdict |-> "UNVERIFIED", confidence |-> 50 * Scale + random * 30]

\* getHeuristicResponse; random is the value Math.random() returns
getHeuristicResponse(agent, content, random) ==
    LET contentLower == toLowerCase(content)
        hasSuspiciousPattern ==
            \E pattern \in suspiciousPatterns : includes(contentLower, pattern)
    IN  IF hasSuspiciousPattern /\ (agent = "scam" \/ agent = "phishing")
        THEN [verdict |-> "SUSPICIOUS", confidence |-> 85 * Scale + random * 10]
        ELSE [verdict |-> "UNVERIFIED", confidence |-> 50 * Scale + random * 30]

\* generateAgentResponse comparing the content as typed, not lower-cased
generateAgentResponseCaseSensitive(agent, content, random) ==
    LET hits == {i \in 1..Len(scenarios) : scenarios[i].content = content}
    IN  IF hits # {}
        THEN getScenarioResponse(agent, scenarios[CHOOSE i \in hits : \A j \in hits : i <= j])
        ELSE getHeuristicResponse(agent, content, random)

\* generateAgentResponse
generateAgentResponse(agent, content, random) ==
    LET contentLower == toLowerCase(content)
        hits == {i \in 1..Len(scenarios) : scenarioLower[i] = contentLower}
    IN  IF hits # {}
        THEN getScenarioResponse(agent, scenarios[CHOOSE i \in hits : \A j \in hits : i <= j])
        ELSE getHeuristicResponse(agent, content, random)

\* the value processAgent resolves to
processAgent(agent, content, random) ==
    LET response == generateAgentResponse(agent, content, random)
    IN  [agent |-> agent, verdict |-> response.verdict, confidence |-> response.confidence]

(***************************************************************************)
(* Aggregator                                                              *)
(***************************************************************************)
RECURSIVE SumConfidence(_)
SumConfidence(results) ==
    IF results = <<>> THEN 0 ELSE Head(results).confidence + SumConfidence(Tail(results))

\* calculateRiskLevel; confidence is the fraction sum / (Scale * count)
calculateRiskLevel(verdict, sum, count) ==
    IF verdict = "DANGEROUS" THEN "CRITICAL"
    ELSE IF verdict = "FALSE" /\ sum > 90 * Scale * count THEN "HIGH"
    ELSE IF verdict = "SUSPICIOUS" THEN "MEDIUM"
    ELSE IF verdict = "UNVERIFIED" THEN "LOW"
    ELSE "MINIMAL"

\* generateSummary: the template chosen and the count it interpolates
generateSummary(verdict, results) ==
    [template |-> IF verdict \in {"DANGEROUS", "FALSE", "VERIFIED", "SUSPICIOUS"}
                  THEN verdict ELSE "UNVERIFIED",
     agentCount |-> IF verdict = "SUSPICIOUS" THEN 0 ELSE Len(results)]

\* the NaN that 0 / 0 yields when the list of results is empty
NaN == -1

\* Math.floor in the place of Math.round
MathFloor(sum, count) ==
    IF count = 0 THEN NaN ELSE sum \div (Scale * count)

\* Math.round(avgConfidence), avgConfidence being sum / (Scale * count):
\* the nearest integer, halves upward
MathRound(sum, count) ==
    IF count = 0 THEN NaN ELSE (2 * sum + Scale * count) \div (2 * Scale * count)

\* the chain with the FALSE branch tested before the MALICIOUS / SCAM one
overallVerdictFalseFirst(verdicts, sum, count) ==
    IF "FALSE" \in verdicts THEN "FALSE"
    ELSE IF "MALICIOUS" \in verdicts \/ "SCAM" \in verdicts THEN "DANGEROUS"
    ELSE IF "TRUE" \in verdicts /\ sum > 80 * Scale * count THEN "VERIFIED"
    ELSE IF "SUSPICIOUS" \in verdicts THEN "SUSPICIOUS"
    ELSE "UNVERIFIED"

\* calculateOverallResult: the if / else-if chain that picks the verdict
overallVerdict(verdicts, sum, count) ==
    IF "MALICIOUS" \in verdicts \/ "SCAM" \in verdicts THEN "DANGEROUS"
    ELSE IF "FALSE" \in verdicts THEN "FALSE"
    ELSE IF "TRUE" \in verdicts /\ sum > 80 * Scale * count THEN "VERIFIED"
    ELSE IF "SUSPICIOUS" \in verdicts THEN "SUSPICIOUS"
    ELSE "UNVERIFIED"

\* calculateOverallResult
calculateOverallResult(results) ==
    LET verdicts == {results[i].verdict : i \in 1..Len(results)}
        sum   == SumConfidence(results)
        count == Len(results)
        verdict == overallVerdict(verdicts, sum, count)
    IN  [verdict    |-> verdict,
         confidence |-> MathRound(sum, count),
         summary    |-> generateSummary(verdict, results),
         riskLevel  |-> calculateRiskLevel(verdict, sum, count)]

(***************************************************************************)
(* Aggregator study: calculateOverallResult on lists of analyzer results   *)
(***************************************************************************)
MaxResults == 2

\* the verdicts an analyzer reports
Verdicts == {"TRUE", "FALSE", "MALICIOUS", "SCAM", "SUSPICIOUS", "UNVERIFIED"}

\* confidences an analyzer reports, in hundredths: the ends of [0, 100], the
\* 80 of the VERIFIED test, and fractions on either side of 80 and of 90
Confidences == {0, 8000, 8050, 8960, 9040, 10000}

\* one more analyzer result joins the list
AddResult(verdict, confidence) ==
    /\ Len(agentResults) < MaxResults
    /\ agentResults' = Append(agentResults,
                              [agent      |-> agents[Len(agentResults) + 1],
                               verdict    |-> verdict,
                               confidence |-> confidence])
    /\ overallResult' = None
    /\ previousResult' = None
    /\ UNCHANGED <<orchVars, selVars, sideVars>>

\* a calculateOverallResult that takes the results out of the list it is given
AggregateConsumes ==
    /\ previousResult = None
    /\ overallResult' = Some(calculateOverallResult(agentResults))
    /\ previousResult' = overallResult
    /\ agentResults' = IF agentResults = <<>> THEN <<>> ELSE Tail(agentResults)
    /\ UNCHANGED <<orchVars, selVars, sideVars>>

\* calculateOverallResult is applied to the list, a first and a second time
Aggregate ==
    /\ previousResult = None
    /\ overallResult' = Some(calculateOverallResult(agentResults))
    /\ previousResult' = overallResult
    /\ UNCHANGED agentResults
    /\ UNCHANGED <<orchVars, selVars, sideVars>>

(***************************************************************************)
(* Orchestrator (bot): verifyContent                                       *)
(***************************************************************************)
Horizon == 60    \* cleanupOldVerifications: one hour, in minutes

Calls == 1..MaxCalls

Users == {"web-user"}

\* session ids a client may pass to POST /api/verify
SessionIds == {"s1"}

\* uuidv4(): an id no other call has
uuidv4(c) == "uuid-" \o ToString(c)

\* contents passed to verifyContent: two of the demo scenarios, and NoValue
\* for a content that is not a string
VerifyContents ==
    {"NASA announces new Mars mission scheduled for 2026",
     "Congratulations! You won $1M lottery. Send $500 processing fee to claim!",
     NoValue}

\* instants at which the clock is read: the start, and every instant by
\* which the records of the previous one have outlived the retention horizon
Epochs == {t \in 0..MaxTime : t % (Horizon + 1) = 0}

\* the content of the sessions of the retention study: one demo scenario,
\* which selects a single analyzer
SweepContents ==
    {"Congratulations! You won $1M lottery. Send $500 processing fee to claim!"}

\* the instants of the retention study: those of Epochs and, before each of
\* the later ones, the instant at which a record of the previous epoch is one
\* minute short of the horizon
MaxSweepTime == 122

Instants == {t \in 0..MaxSweepTime : t % (Horizon + 1) \in {0, Horizon - 1}}

\* the contents of the validation study: the empty string, and NoValue for a
\* content that is not a string
EdgeContents == {"", NoValue}

\* the contents of the scenario study: the content of every demo scenario,
\* and that of one of them typed in capitals
ScenarioContents ==
    {scenarios[i].content : i \in 1..Len(scenarios)}
        \cup {"CONGRATULATIONS! YOU WON $1M LOTTERY. SEND $500 PROCESSING FEE TO CLAIM!"}

\* the contents of the latency study: they select one, two and five analyzers
TimedContents ==
    {"Congratulations! You won $1M lottery. Send $500 processing fee to claim!",
     "NASA announces new Mars mission scheduled for 2026",
     "study lottery account deepfake"}

\* the contents of the stub study: four that match no scenario (a phrase
\* and the scam and phishing keywords, typed in capitals; a phrase with a news
\* and a scam keyword; a scam keyword and no phrase; a phrase in capitals and
\* no keyword) and one scenario
StubContents ==
    {"URGENT: Click Here",
     "Breaking: prince wins lottery",
     "send money",
     "YOU WON",
     "NASA announces new Mars mission scheduled for 2026"}

StringContents ==
    (VerifyContents \cup SweepContents \cup EdgeContents \cup ScenarioContents
        \cup TimedContents \cup StubContents) \ {NoValue}

\* selectAgents(content) and processAgent(agent, content, random), tabulated
\* for the contents passed to verifyContent
selectAgentsOf == [content \in StringContents |-> selectAgents(content)]

processAgentOf ==
    [agent \in Range(agents), content \in StringContents, random \in RandomDraws |->
        processAgent(agent, content, random)]

AllAgents == Range(agents)

\* a fan-out that starts the first selected analyzer only
FanOutFirstOnly(selectedAgents) ==
    [a \in AllAgents |->
        IF selectedAgents # <<>> /\ a = Head(selectedAgents) THEN "processing" ELSE "idle"]

\* the state of the processAgent promises of one call: every selected
\* analyzer is invoked by selectedAgents.map before Promise.all awaits
FanOut(selectedAgents) ==
    [a \in AllAgents |-> IF a \in Range(selectedAgents) THEN "processing" ELSE "idle"]

NotInvoked ==
    [pc |-> "ready", id |-> NoValue, content |-> NoValue, agents |-> <<>>,
     agentState |-> [a \in AllAgents |-> "idle"],
     agentResults |-> [a \in AllAgents |-> None],
     overall |-> None, result |-> None, error |-> None]

\* {...this.activeVerifications.get(id)}: the properties of the stored
\* record, none when there is no record
NoRecord ==
    [userId |-> NoValue, content |-> NoValue, agents |-> None, startTime |-> None,
     status |-> NoValue, result |-> None, error |-> None]

Spread(m, id) == IF MapHas(m, id) THEN MapGet(m, id) ELSE NoRecord

\* the record verifyContent stores before it starts the analyzers
NewRecord(userId, content, selectedAgents, time) ==
    [userId |-> userId, content |-> content, agents |-> Some(selectedAgents),
     startTime |-> Some(time), status |-> "processing", result |-> None, error |-> None]

\* verifyContent up to its await: select, store the record, count, fan out
VerifyContent(c, content, userId, verificationId) ==
    /\ calls[c].pc = "ready"
    /\ \A d \in Calls : d < c => calls[d].pc # "ready"
    /\ IF content = NoValue
       THEN \* content.toLowerCase() throws in selectAgents, before any write
            /\ calls' = [calls EXCEPT ![c].pc = "thrown", ![c].error = Some("TypeError")]
            /\ UNCHANGED <<activeVerifications, totalVerifications>>
       ELSE LET id == IF verificationId # NoValue THEN verificationId ELSE uuidv4(c)
                selectedAgents == selectAgentsOf[content]
            IN  /\ activeVerifications' =
                       MapSet(activeVerifications, id,
                              NewRecord(userId, content, selectedAgents, now))
                /\ totalVerifications' = totalVerifications + 1
                /\ calls' = [calls EXCEPT
                       ![c].id = id, ![c].content = content, ![c].agents = selectedAgents,
                       ![c].agentState = FanOut(selectedAgents),
                       \* Promise.all of no promises resolves at once
                       ![c].pc = "awaiting"]
    /\ cleanupOutcome' = None
    /\ UNCHANGED now
    /\ UNCHANGED <<selVars, aggVars, sideVars>>

\* the results Promise.all resolves to: those of the resolved promises, in
\* the order of the selected agents
ResultsOf(call) ==
    LET Resolved(a) == IsSome(call.agentResults[a])
        done == SelectSeq(call.agents, Resolved)
    IN  [i \in 1..Len(done) |-> Get(call.agentResults[done[i]])]

\* a fan-in that is released by the first resolved promise
SomeReturned(call) == \E a \in Range(call.agents) : call.agentState[a] = "returned"

\* Promise.all resolves once every promise has resolved
AllReturned(call) == \A a \in Range(call.agents) : call.agentState[a] = "returned"

\* a catch block that stores the error and leaves the status alone
CatchKeepsStatus(m, id, message) ==
    MapSet(m, id, [Spread(m, id) EXCEPT !.error = Some(message)])

\* the catch block of verifyContent: mark the record failed and rethrow
Catch(m, id, message) ==
    MapSet(m, id, [Spread(m, id) EXCEPT !.status = "failed", !.error = Some(message)])

\* verifyContent after Promise.all resolved: aggregate, build the result,
\* mark the record completed; reading startTime of a record that is gone
\* (or has none) throws inside the try block
Resolve(c, call) ==
    LET id == call.id
        results == ResultsOf(call)
        overall == calculateOverallResult(results)
        result  == [verificationId |-> id, content |-> call.content, agents |-> call.agents,
                    agentResults |-> results, overallResult |-> overall]
    IN  IF MapHas(activeVerifications, id) /\ IsSome(MapGet(activeVerifications, id).startTime)
        THEN /\ activeVerifications' =
                    MapSet(activeVerifications, id,
                           [Spread(activeVerifications, id) EXCEPT
                               !.status = "completed", !.result = Some(result)])
             /\ calls' = [calls EXCEPT ![c] =
                    [call EXCEPT !.pc = "returned", !.overall = Some(overall),
                                 !.result = Some(result)]]
        ELSE /\ activeVerifications' = Catch(activeVerifications, id, "TypeError")
             /\ calls' = [calls EXCEPT ![c] =
                    [call EXCEPT !.pc = "thrown", !.overall = Some(overall),
                                 !.error = Some("TypeError")]]

\* the sleep of processAgent(agent) of call c ends and its promise resolves;
\* when it is the last one, Promise.all resolves and verifyContent goes on
AgentReturns(c, agent, random) ==
    /\ calls[c].agentState[agent] = "processing"
    /\ IF calls[c].pc = "awaiting"
       THEN LET call == [calls[c] EXCEPT
                            !.agentState[agent] = "returned",
                            !.agentResults[agent] =
                                Some(processAgentOf[agent, calls[c].content, random])]
            IN  IF AllReturned(call)
                THEN Resolve(c, call)
                ELSE /\ calls' = [calls EXCEPT ![c] = call]
                     /\ UNCHANGED activeVerifications
       ELSE \* Promise.all has rejected already: the value is dropped
            /\ random = CHOOSE r \in RandomDraws : TRUE
            /\ calls' = [calls EXCEPT ![c].agentState[agent] = "returned"]
            /\ UNCHANGED activeVerifications
    /\ cleanupOutcome' = None
    /\ UNCHANGED <<totalVerifications, now>>
    /\ UNCHANGED <<selVars, aggVars, sideVars>>

\* the promise of processAgent(agent) of call c rejects; the first rejection
\* rejects Promise.all and verifyContent enters its catch block.  The stub
\* analyzers never throw; the rejection is the failure of a pluggable
\* analyzer, which the try/catch of verifyContent is there to handle.
AgentRaises(c, agent) ==
    /\ calls[c].agentState[agent] = "processing"
    /\ IF calls[c].pc = "awaiting"
       THEN /\ activeVerifications' = Catch(activeVerifications, calls[c].id, "AnalyzerError")
            /\ calls' = [calls EXCEPT ![c].agentState[agent] = "raised",
                                      ![c].pc = "thrown",
                                      ![c].error = Some("AnalyzerError")]
       ELSE /\ calls' = [calls EXCEPT ![c].agentState[agent] = "raised"]
            /\ UNCHANGED activeVerifications
    /\ cleanupOutcome' = None
    /\ UNCHANGED <<totalVerifications, now>>
    /\ UNCHANGED <<selVars, aggVars, sideVars>>

(***************************************************************************)
(* Session store: retention sweep and the clock                            *)
(***************************************************************************)
\* whether the for-of loop of cleanupOldVerifications reaches a record
\* without startTime, on which startTime.getTime() throws a TypeError
SweepThrows(m) == \E i \in 1..Len(m) : ~IsSome(m[i].value.startTime)

\* the for-of loop of cleanupOldVerifications over the entries still to
\* visit; it stops where startTime.getTime() throws on a record without
\* startTime, leaving the entries after it in place
RECURSIVE SweepFrom(_, _, _)
SweepFrom(m, todo, oneHourAgo) ==
    IF todo = <<>> THEN m
    ELSE LET e == Head(todo)
         IN  IF ~IsSome(e.value.startTime) THEN m
             ELSE IF Get(e.value.startTime) < oneHourAgo
                  THEN SweepFrom(MapDelete(m, e.key), Tail(todo), oneHourAgo)
                  ELSE SweepFrom(m, Tail(todo), oneHourAgo)

\* a sweep that also resets the counter of verifications
cleanupResetsTotal ==
    /\ activeVerifications' =
           SweepFrom(activeVerifications, activeVerifications, now - Horizon)
    /\ cleanupOutcome' = IF SweepThrows(activeVerifications)
                         THEN Some("TypeError") ELSE Some("returned")
    /\ totalVerifications' = 0
    /\ UNCHANGED <<calls, now>>
    /\ UNCHANGED <<selVars, aggVars, sideVars>>

\* cleanupOldVerifications
cleanupOldVerifications ==
    /\ activeVerifications' =
           SweepFrom(activeVerifications, activeVerifications, now - Horizon)
    /\ cleanupOutcome' = IF SweepThrows(activeVerifications)
                         THEN Some("TypeError") ELSE Some("returned")
    /\ UNCHANGED <<totalVerifications, calls, now>>
    /\ UNCHANGED <<selVars, aggVars, sideVars>>

\* getActiveVerifications: the number of records whose status is processing
getActiveVerifications ==
    Cardinality({i \in 1..Len(activeVerifications) :
                    activeVerifications[i].value.status = "processing"})

\* getTotalVerifications
getTotalVerifications == totalVerifications

\* getVerification: the record stored under the id, none when there is none
getVerification(id) ==
    IF MapHas(activeVerifications, id) THEN Some(MapGet(activeVerifications, id)) ELSE None

\* the ids a details button may carry: those of the calls, and one that no
\* verification ever had
DetailIds == {uuidv4(c) : c \in Calls} \cup SessionIds \cup {"unknown"}

\* handleDetailsCallback reading verification.result without testing the
\* record first
handleDetailsUnguarded(verificationId) ==
    LET verification == getVerification(verificationId)
    IN  /\ details' = Some([id   |-> verificationId,
                            view |-> IF ~IsSome(verification) THEN "TypeError"
                                     ELSE IF ~IsSome(Get(verification).result)
                                          THEN "Verification details not found"
                                          ELSE "DETAILED VERIFICATION REPORT"])
        /\ UNCHANGED <<orchVars, selVars, aggVars, timeVars, webVars>>

\* BotCommands.handleDetailsCallback
handleDetailsCallback(verificationId) ==
    LET verification == getVerification(verificationId)
    IN  /\ details' = Some([id   |-> verificationId,
                            view |-> IF ~IsSome(verification) \/ ~IsSome(Get(verification).result)
                                     THEN "Verification details not found"
                                     ELSE "DETAILED VERIFICATION REPORT"])
        /\ UNCHANGED <<orchVars, selVars, aggVars, timeVars, webVars>>

(***************************************************************************)
(* Latency study: one verification on the millisecond clock                *)
(***************************************************************************)
\* loadAgents: processingTime of each analyzer, in milliseconds
processingTime ==
    [a \in AllAgents |->
        CASE a = "news" -> 3500 [] a = "fact" -> 4200 [] a = "scam" -> 2800
          [] a = "phishing" -> 3100 [] a = "image" -> 5500 [] a = "video" -> 6800]

\* agent.processingTime + Math.random() * 1000, random in hundredths
sleepOf(agent, random) == processingTime[agent] + random * 10

NotTimed ==
    [pc |-> "ready", agents |-> <<>>, startTime |-> 0,
     latency |-> [a \in AllAgents |-> 0], processingTime |-> None]

RECURSIVE SumLatency(_, _)
SumLatency(latency, selectedAgents) ==
    IF selectedAgents = <<>> THEN 0
    ELSE latency[Head(selectedAgents)] + SumLatency(latency, Tail(selectedAgents))

\* the sleeps started one after the other: each timer is set when the one of
\* the analyzer before it has fired
setTimersInTurn(start, selectedAgents, latency) ==
    [a \in AllAgents |->
        IF a \in Range(selectedAgents)
        THEN LET i == CHOOSE j \in 1..Len(selectedAgents) : selectedAgents[j] = a
             IN  Some(start + SumLatency(latency, SubSeq(selectedAgents, 1, i)))
        ELSE None]

\* selectedAgents.map(agent => this.processAgent(agent, content)): every
\* processAgent runs up to its await, so every sleep is started at the same
\* instant and its timer is due one latency later
setTimers(start, selectedAgents, latency) ==
    [a \in AllAgents |->
        IF a \in Range(selectedAgents) THEN Some(start + latency[a]) ELSE None]

\* verifyContent up to its await, on the millisecond clock
VerifyTimed(content, random) ==
    /\ timedRun.pc = "ready"
    /\ LET selectedAgents == selectAgentsOf[content]
           latency == [a \in AllAgents |->
                          IF a \in Range(selectedAgents) THEN sleepOf(a, random[a]) ELSE 0]
       IN  /\ timers' = setTimers(clockMs, selectedAgents, latency)
           /\ timedRun' = [timedRun EXCEPT !.pc = "awaiting", !.agents = selectedAgents,
                                           !.startTime = clockMs, !.latency = latency]
    /\ UNCHANGED clockMs
    /\ UNCHANGED <<orchVars, selVars, aggVars, qryVars, webVars>>

\* the timer of an analyzer's sleep fires, the earliest due first; when it
\* was the last one Promise.all resolves and verifyContent computes
\* processingTime: Date.now() - startTime
TimerFires(agent) ==
    /\ IsSome(timers[agent])
    /\ \A b \in AllAgents : IsSome(timers[b]) => Get(timers[agent]) <= Get(timers[b])
    /\ clockMs' = Get(timers[agent])
    /\ timers' = [timers EXCEPT ![agent] = None]
    /\ timedRun' = IF \A b \in AllAgents \ {agent} : ~IsSome(timers[b])
                   THEN [timedRun EXCEPT !.pc = "returned",
                                         !.processingTime = Some(clockMs' - timedRun.startTime)]
                   ELSE timedRun
    /\ UNCHANGED <<orchVars, selVars, aggVars, qryVars, webVars>>

(***************************************************************************)
(* Web UI: VerificationApp, AnimationController, VerificationSystem (web)  *)
(***************************************************************************)
MaxRuns == 2

Runs == 1..MaxRuns

\* VerificationAgent.process: const steps = 10
steps == 10

\* scenario.activeAgents: of the scenario made for a typed content, and of
\* the scenario behind a demo button
CustomSelections == {<<"scam">>}

DemoSelections == {<<"news">>}

\* the place of one call of agent.process: not called, waiting for the
\* staggered timer that calls it, awaiting the timer of iteration i of its
\* loop (0..steps), or returned
NotCalled == -2
Staggered == -1
Returned  == steps + 1

NotRun ==
    [pc |-> "ready", activeAgents |-> <<>>,
     simulation |-> [a \in AllAgents |-> NotCalled],
     processing |-> [a \in AllAgents |-> NotCalled]]

\* a run that has returned: nothing of its closure is read again
Finished == [NotRun EXCEPT !.pc = "done"]

InFlight(r) == runs[r].pc \notin {"ready", "done"}

\* VerificationApp.analyzeContent up to its first await
analyzeContentApp(r, selection) ==
    /\ runs[r].pc = "ready"
    /\ \A q \in Runs : q < r => runs[q].pc # "ready"
    /\ isProcessing' = TRUE
    /\ runs' = [runs EXCEPT ![r].pc = "overlay", ![r].activeAgents = selection]
    /\ UNCHANGED <<processingState, webActiveAgents, agentStatus, agentProgress>>

\* the analyze button, and Ctrl+Enter, on a content that is not blank
handleAnalyzeClick(r, selection) ==
    /\ ~isProcessing
    /\ analyzeContentApp(r, selection)
    /\ UNCHANGED <<orchVars, selVars, aggVars, qryVars, timeVars>>

\* a demo scenario button
loadDemoScenario(r, selection) ==
    /\ ~isProcessing
    /\ analyzeContentApp(r, selection)
    /\ UNCHANGED <<orchVars, selVars, aggVars, qryVars, timeVars>>

\* VerificationSystem.reset (web) and the assignments of resetApplication
ResetAll ==
    /\ agentStatus' = [a \in AllAgents |-> "idle"]
    /\ agentProgress' = [a \in AllAgents |-> 0]
    /\ webActiveAgents' = <<>>
    /\ processingState' = "idle"
    /\ isProcessing' = FALSE
    /\ UNCHANGED runs

\* the clear button
handleClearClick ==
    /\ ~isProcessing
    /\ ResetAll
    /\ UNCHANGED <<orchVars, selVars, aggVars, qryVars, timeVars>>

\* Ctrl+R: resetApplication, whatever isProcessing is
resetApplication ==
    /\ ResetAll
    /\ UNCHANGED <<orchVars, selVars, aggVars, qryVars, timeVars>>

\* the overlay sleep and the two sleeps that open startProcessingSimulation
\* have ended: the staggered timers that call agent.process are armed
startProcessingSimulation(r) ==
    /\ runs[r].pc = "overlay"
    /\ runs' = [runs EXCEPT ![r].pc = "simulation",
                   ![r].simulation = [a \in AllAgents |->
                        IF a \in Range(runs[r].activeAgents) THEN Staggered ELSE NotCalled]]
    /\ UNCHANGED <<isProcessing, processingState, webActiveAgents, agentStatus, agentProgress>>
    /\ UNCHANGED <<orchVars, selVars, aggVars, qryVars, timeVars>>

\* a staggered timer fires: agent.process starts and runs up to its first await
StartAgent(r, agent) ==
    /\ runs[r].pc = "simulation"
    /\ runs[r].simulation[agent] = Staggered
    /\ runs' = [runs EXCEPT ![r].simulation[agent] = 0]
    /\ agentStatus' = [agentStatus EXCEPT ![agent] = "processing"]
    /\ agentProgress' = [agentProgress EXCEPT ![agent] = 0]
    /\ UNCHANGED <<isProcessing, processingState, webActiveAgents>>
    /\ UNCHANGED <<orchVars, selVars, aggVars, qryVars, timeVars>>

\* the calls of agent.process of the phase that have not returned
Pending(calls_, agent) == {a \in AllAgents \ {agent} : calls_[a] \notin {NotCalled, Returned}}

\* VerificationSystem.analyzeContent (web) up to its await of the planning
\* delay: reset, then planning with the agents of the scenario
analyzeContentSystem(r) ==
    /\ agentStatus' = [a \in AllAgents |-> "idle"]
    /\ agentProgress' = [a \in AllAgents |-> 0]
    /\ processingState' = "planning"
    /\ webActiveAgents' = runs[r].activeAgents
    /\ runs' = [runs EXCEPT ![r].pc = "planning"]
    /\ UNCHANGED isProcessing

\* the closing sleeps of startProcessingSimulation have ended and
\* VerificationApp.analyzeContent calls verificationSystem.analyzeContent
SimulationEnds(r) ==
    /\ runs[r].pc = "closing"
    /\ analyzeContentSystem(r)
    /\ UNCHANGED <<orchVars, selVars, aggVars, qryVars, timeVars>>

\* the planning delay has ended: processing, with one agent.process per agent
\* of this.activeAgents as it is now; when there is none Promise.all resolves
\* at once, the state is completed and the run of the application ends
PlanningEnds(r) ==
    /\ runs[r].pc = "planning"
    /\ agentStatus' = [a \in AllAgents |->
            IF a \in Range(webActiveAgents) THEN "processing" ELSE agentStatus[a]]
    /\ agentProgress' = [a \in AllAgents |->
            IF a \in Range(webActiveAgents) THEN 0 ELSE agentProgress[a]]
    /\ IF webActiveAgents = <<>>
       THEN /\ processingState' = "completed"
            /\ runs' = [runs EXCEPT ![r] = Finished]
            /\ isProcessing' = FALSE
       ELSE /\ processingState' = "processing"
            /\ runs' = [runs EXCEPT ![r].pc = "processing",
                           ![r].processing = [a \in AllAgents |->
                                IF a \in Range(webActiveAgents) THEN 0 ELSE NotCalled]]
            /\ UNCHANGED isProcessing
    /\ UNCHANGED webActiveAgents
    /\ UNCHANGED <<orchVars, selVars, aggVars, qryVars, timeVars>>

\* the timer of iteration i of a call of agent.process made by the simulation
\* fires: the next iteration sets the progress, or the loop ends and the
\* status is completed; after the last call of the run the simulation closes
SimulationStep(r, agent) ==
    /\ runs[r].pc = "simulation"
    /\ runs[r].simulation[agent] \in 0..steps
    /\ LET i == runs[r].simulation[agent]
       IN  IF i < steps
           THEN /\ agentProgress' = [agentProgress EXCEPT ![agent] = ((i + 1) * 100) \div steps]
                /\ runs' = [runs EXCEPT ![r].simulation[agent] = i + 1]
                /\ UNCHANGED agentStatus
           ELSE /\ agentStatus' = [agentStatus EXCEPT ![agent] = "completed"]
                /\ runs' = [runs EXCEPT ![r].simulation[agent] = Returned,
                               ![r].pc = IF Pending(runs[r].simulation, agent) = {}
                                         THEN "closing" ELSE "simulation"]
                /\ UNCHANGED agentProgress
    /\ UNCHANGED <<isProcessing, processingState, webActiveAgents>>
    /\ UNCHANGED <<orchVars, selVars, aggVars, qryVars, timeVars>>

\* the same for a call made by VerificationSystem.analyzeContent; after the
\* last one Promise.all resolves, the state is completed, the results are
\* displayed and the finally block clears isProcessing
ProcessingStep(r, agent) ==
    /\ runs[r].pc = "processing"
    /\ runs[r].processing[agent] \in 0..steps
    /\ LET i == runs[r].processing[agent]
       IN  IF i < steps
           THEN /\ agentProgress' = [agentProgress EXCEPT ![agent] = ((i + 1) * 100) \div steps]
                /\ runs' = [runs EXCEPT ![r].processing[agent] = i + 1]
                /\ UNCHANGED <<agentStatus, processingState, isProcessing>>
           ELSE /\ agentStatus' = [agentStatus EXCEPT ![agent] = "completed"]
                /\ UNCHANGED agentProgress
                /\ IF Pending(runs[r].processing, agent) = {}
                   THEN /\ runs' = [runs EXCEPT ![r] = Finished]
                        /\ processingState' = "completed"
                        /\ isProcessing' = FALSE
                   ELSE /\ runs' = [runs EXCEPT ![r].processing[agent] = Returned]
                        /\ UNCHANGED <<processingState, isProcessing>>
    /\ UNCHANGED webActiveAgents
    /\ UNCHANGED <<orchVars, selVars, aggVars, qryVars, timeVars>>

\* time passes
Tick(t) ==
    /\ t > now
    /\ now' = t
    /\ cleanupOutcome' = None
    /\ UNCHANGED <<activeVerifications, totalVerifications, calls>>
    /\ UNCHANGED <<selVars, aggVars, sideVars>>

(***************************************************************************)
(* Specifications                                                          *)
(***************************************************************************)
\* the constructor: initialize() has loaded the agents and the scenarios
Init ==
    /\ activeVerifications = <<>>
    /\ totalVerifications = 0
    /\ calls = [c \in Calls |-> NotInvoked]
    /\ now = 0
    /\ cleanupOutcome = None
    /\ agentResults = <<>>
    /\ overallResult = None
    /\ previousResult = None
    /\ details = None
    /\ clockMs = 0
    /\ timers = [a \in AllAgents |-> None]
    /\ timedRun = NotTimed
    /\ isProcessing = FALSE
    /\ runs = [r \in Runs |-> NotRun]
    /\ processingState = "idle"
    /\ webActiveAgents = <<>>
    /\ agentStatus = [a \in AllAgents |-> "idle"]
    /\ agentProgress = [a \in AllAgents |-> 0]
    /\ typed = ""
    /\ selected = None
    /\ activeAgents = None

Next ==
    \/ \E c \in Calls, content \in VerifyContents, userId \in Users,
          verificationId \in SessionIds \cup {NoValue} :
            VerifyContent(c, content, userId, verificationId)
    \/ \E c \in Calls, agent \in AllAgents, random \in RandomDraws :
            AgentReturns(c, agent, random)
    \/ \E c \in Calls, agent \in AllAgents : AgentRaises(c, agent)
    \/ cleanupOldVerifications
    \/ \E t \in Epochs : Tick(t)

Spec == Init /\ [][Next]_vars

\* an analyzer in flight settles: its promise resolves or rejects
Settle ==
    \E c \in Calls, agent \in AllAgents :
        \/ \E random \in RandomDraws : AgentReturns(c, agent, random)
        \/ AgentRaises(c, agent)

\* the orchestrator when analyzers in flight do not stay in flight for ever:
\* the timer of a stub fires, a pluggable analyzer answers or fails
\* verifications under a session id or an id of their own, with the retention
\* sweep at the instants of Epochs
NextLive ==
    \/ \E c \in Calls, content \in SweepContents, userId \in Users,
          verificationId \in SessionIds \cup {NoValue} :
            VerifyContent(c, content, userId, verificationId)
    \/ \E c \in Calls, agent \in AllAgents, random \in RandomDraws :
            AgentReturns(c, agent, random)
    \/ \E c \in Calls, agent \in AllAgents : AgentRaises(c, agent)
    \/ cleanupOldVerifications
    \/ \E t \in Epochs : Tick(t)

SpecLive == Init /\ [][NextLive]_vars /\ WF_vars(Settle)

\* the selectors alone, over every content built from the fragments
NextSel ==
    \/ \E w \in Fragments : Type(w)
    \/ SelectBot
    \/ SelectWeb

SpecSel == Init /\ [][NextSel]_vars

\* the retention sweep at the instants around the horizon, on sessions with
\* ids of their own
NextSweep ==
    \/ \E c \in Calls, content \in SweepContents, userId \in Users :
            VerifyContent(c, content, userId, NoValue)
    \/ \E c \in Calls, agent \in AllAgents, random \in RandomDraws :
            AgentReturns(c, agent, random)
    \/ \E c \in Calls, agent \in AllAgents : AgentRaises(c, agent)
    \/ cleanupOldVerifications
    \/ \E t \in Instants : Tick(t)

SpecSweep == Init /\ [][NextSweep]_vars

\* the retention study with the details view queried at any moment
NextQuery ==
    \/ NextSweep
    \/ \E verificationId \in DetailIds : handleDetailsCallback(verificationId)

SpecQuery == Init /\ [][NextQuery]_vars

\* verifications of the demo scenarios, each under an id of its own
NextScenario ==
    \/ \E c \in Calls, content \in ScenarioContents, userId \in Users :
            VerifyContent(c, content, userId, NoValue)
    \/ \E c \in Calls, agent \in AllAgents, random \in RandomDraws :
            AgentReturns(c, agent, random)
    \/ \E c \in Calls, agent \in AllAgents : AgentRaises(c, agent)

SpecScenario == Init /\ [][NextScenario]_vars

\* verifications of contents that reach the heuristic stub
NextStub ==
    \/ \E c \in Calls, content \in StubContents, userId \in Users :
            VerifyContent(c, content, userId, NoValue)
    \/ \E c \in Calls, agent \in AllAgents, random \in RandomDraws :
            AgentReturns(c, agent, random)
    \/ \E c \in Calls, agent \in AllAgents : AgentRaises(c, agent)

SpecStub == Init /\ [][NextStub]_vars

\* one verification on the millisecond clock, for every draw of the sleeps
NextTimed ==
    \/ \E content \in TimedContents, random \in [AllAgents -> RandomDraws] :
            VerifyTimed(content, random)
    \/ \E agent \in AllAgents : TimerFires(agent)

SpecTimed == Init /\ [][NextTimed]_vars

\* the web UI under every sequence of user events
NextWeb ==
    \/ \E r \in Runs, selection \in CustomSelections : handleAnalyzeClick(r, selection)
    \/ \E r \in Runs, selection \in DemoSelections : loadDemoScenario(r, selection)
    \/ handleClearClick
    \/ resetApplication
    \/ \E r \in Runs : startProcessingSimulation(r)
    \/ \E r \in Runs, agent \in AllAgents : StartAgent(r, agent)
    \/ \E r \in Runs, agent \in AllAgents : SimulationStep(r, agent)
    \/ \E r \in Runs : SimulationEnds(r)
    \/ \E r \in Runs : PlanningEnds(r)
    \/ \E r \in Runs, agent \in AllAgents : ProcessingStep(r, agent)

SpecWeb == Init /\ [][NextWeb]_vars

\* verifyContent on an empty content and on a content that is not a string
NextEdge ==
    \/ \E c \in Calls, content \in EdgeContents, userId \in Users :
            VerifyContent(c, content, userId, NoValue)
    \/ \E c \in Calls, agent \in AllAgents, random \in RandomDraws :
            AgentReturns(c, agent, random)
    \/ \E c \in Calls, agent \in AllAgents : AgentRaises(c, agent)

SpecEdge == Init /\ [][NextEdge]_vars

\* the aggregator alone, over every list of up to MaxResults analyzer results
NextAgg ==
    \/ \E verdict \in Verdicts, confidence \in Confidences : AddResult(verdict, confidence)
    \/ Aggregate

SpecAgg == Init /\ [][NextAgg]_vars

(***************************************************************************)
(* Properties                                                              *)
(***************************************************************************)
Entries == Range(activeVerifications)

Invoked(c) == calls[c].pc # "ready" /\ calls[c].content # NoValue

StatusOf(m, id) == MapGet(m, id).status

\* C1: a verifyContent call on a session id whose record is processing or
\* completed is rejected before any analyzer is invoked, so no call fans out
\* on such an id.
C1_DuplicateSessionRejected ==
    [][\A c \in Calls :
          (calls[c].pc = "ready" /\ calls'[c].pc = "awaiting")
              => ~(/\ MapHas(activeVerifications, calls'[c].id)
                   /\ StatusOf(activeVerifications, calls'[c].id) \in {"processing", "completed"})]_vars

\* C2: the status stored for a session id only moves forward: a record that
\* is completed or failed keeps that status for as long as it is stored.
C2_StatusNeverBackward ==
    [][\A id \in MapKeys(activeVerifications) \cap MapKeys(activeVerifications') :
          StatusOf(activeVerifications, id) \in {"completed", "failed"}
              => StatusOf(activeVerifications', id) = StatusOf(activeVerifications, id)]_vars

\* C3: when a selected analyzer of a call raises, the call fails: at that
\* step the record of its id becomes failed and carries the error, the call
\* throws, and no overall result is computed for it, whatever the other
\* analyzers returned.
C3_AnalyzerFailureFailsSession ==
    [][\A c \in Calls :
          (\E a \in Range(calls'[c].agents) : calls'[c].agentState[a] = "raised")
              => /\ calls'[c].pc = "thrown"
                 /\ IsSome(calls'[c].error)
                 /\ calls'[c].overall = None
                 /\ calls'[c].result = None
                 /\ calls[c].pc = "awaiting"
                        => /\ MapHas(activeVerifications', calls[c].id)
                           /\ StatusOf(activeVerifications', calls[c].id) = "failed"
                           /\ MapGet(activeVerifications', calls[c].id).error = calls'[c].error]_vars

\* C3 witness: a call failed by one analyzer while another had returned.
C3_Witness ==
    \E c \in Calls :
        /\ calls[c].pc = "thrown"
        /\ \E a, b \in Range(calls[c].agents) :
              /\ calls[c].agentState[a] = "raised"
              /\ IsSome(calls[c].agentResults[b])
        /\ MapHas(activeVerifications, calls[c].id)
        /\ StatusOf(activeVerifications, calls[c].id) = "failed"

\* C4: a stored record holds a result only if its status is completed.
C4_ResultOnlyWhenCompleted ==
    \A e \in Entries : IsSome(e.value.result) => e.value.status = "completed"

\* every analyzer selected for call c has returned its result
NoneInFlight(c) ==
    \A a \in Range(calls[c].agents) :
        calls[c].agentState[a] = "returned" /\ IsSome(calls[c].agentResults[a])

C6_ResultsMatchSelected ==
    \A e \in Entries :
        e.value.status = "completed"
            => /\ IsSome(e.value.result)
               /\ IsSome(e.value.agents)
               /\ LET results == Get(e.value.result).agentResults
                  IN  [i \in 1..Len(results) |-> results[i].agent] = Get(e.value.agents)

\* C7: every selected analyzer of a call is started by the fan-out: none is
\* still idle once the call awaits, so none starts after another has settled.
C7_AllStartedBeforeAwait ==
    \A c \in Calls :
        Invoked(c) => \A a \in Range(calls[c].agents) : calls[c].agentState[a] # "idle"

\* C7 witness: two analyzers of one call are in flight at once.
C7_Witness ==
    \E c \in Calls :
        /\ Len(calls[c].agents) >= 2
        /\ \A a \in Range(calls[c].agents) : calls[c].agentState[a] = "processing"

\* C8: the selection of the bot and that of the web UI are never empty.
C8_SelectionNeverEmpty ==
    /\ IsSome(selected) => Len(Get(selected)) >= 1
    /\ IsSome(activeAgents) => Len(Get(activeAgents)) >= 1

\* C8 witness: both selectors have run on a content without any keyword.
C8_Witness ==
    /\ typed = "hello"
    /\ selected = Some(<<"news", "fact">>)
    /\ activeAgents = Some(<<"news", "fact">>)

DeclIndex(a) == CHOOSE i \in 1..Len(agents) : agents[i] = a

\* the analyzers of a set, in declaration order
InDeclOrder(set) == LET In(a) == a \in set IN SelectSeq(agents, In)

FirstN(seq, n) == IF Len(seq) > n THEN SubSeq(seq, 1, n) ELSE seq

\* the analyzers a content matches for the bot and for the web UI
MatchedBot(content) ==
    {a \in AllAgents : some(keywordsLower[a], toLowerCase(content))}

MatchedWeb(content) ==
    {a \in AllAgents : some(triggers[a], toLowerCase(content))}
        \cup (IF MatchesUrl(toLowerCase(content)) THEN {"phishing"} ELSE {})

\* C9: a selection has at most 4 analyzers; when more than 4 match, it is the
\* first 4 matched in declaration order.
C9_AtMostFour ==
    /\ IsSome(selected)
          => /\ Len(Get(selected)) <= MaxActive
             /\ Cardinality(MatchedBot(typed)) > MaxActive
                    => Get(selected) = FirstN(InDeclOrder(MatchedBot(typed)), MaxActive)
    /\ IsSome(activeAgents)
          => /\ Len(Get(activeAgents)) <= MaxActive
             /\ Cardinality(MatchedWeb(typed)) > MaxActive
                    => Get(activeAgents) = FirstN(InDeclOrder(MatchedWeb(typed)), MaxActive)

NoDuplicates(seq) == \A i, j \in 1..Len(seq) : seq[i] = seq[j] => i = j

DeclOrdered(seq) == \A i, j \in 1..Len(seq) : i < j => DeclIndex(seq[i]) < DeclIndex(seq[j])

\* C10: a selection lists no analyzer twice and lists the analyzers in
\* declaration order, also when the URL rule adds the phishing analyzer.
C10_NoDuplicatesDeclOrder ==
    /\ IsSome(selected) => NoDuplicates(Get(selected)) /\ DeclOrdered(Get(selected))
    /\ IsSome(activeAgents) => NoDuplicates(Get(activeAgents)) /\ DeclOrdered(Get(activeAgents))

\* the content contains http:// or https://
HasUrl(content) == includes(content, "http://") \/ includes(content, "https://")

\* C11: for a content containing http:// or https://, the selection of the
\* bot and that of the web UI both include the phishing analyzer.
C11_UrlSelectsPhishing ==
    HasUrl(typed)
        => /\ IsSome(selected) => "phishing" \in Range(Get(selected))
           /\ IsSome(activeAgents) => "phishing" \in Range(Get(activeAgents))

\* the analyzers one of whose trigger keywords of the web UI the content contains
KeywordMatchedWeb(content) ==
    {a \in AllAgents : some(triggers[a], toLowerCase(content))}

\* C12: for a content that contains no trigger keyword of a selector, the
\* empty string included, that selector returns exactly [news, fact].
C12_DefaultPair ==
    /\ IsSome(selected) /\ MatchedBot(typed) = {}
          => Get(selected) = <<"news", "fact">>
    /\ IsSome(activeAgents) /\ KeywordMatchedWeb(typed) = {}
          => Get(activeAgents) = <<"news", "fact">>

\* C12 witness: both selectors have run on the empty string and returned the
\* default pair.
C12_Witness ==
    /\ typed = ""
    /\ selected = Some(<<"news", "fact">>)
    /\ activeAgents = Some(<<"news", "fact">>)

\* the verdicts and the confidences of the list given to the aggregator
InputVerdicts == {agentResults[i].verdict : i \in 1..Len(agentResults)}

InputSum == SumConfidence(agentResults)

\* the mean confidence of the list exceeds the whole number n
MeanAbove(n) == InputSum > n * Scale * Len(agentResults)

\* C13: for a non-empty list of analyzer results the overall verdict follows
\* the first-match precedence DANGEROUS, FALSE, VERIFIED (a TRUE verdict and a
\* mean confidence above 80), SUSPICIOUS, UNVERIFIED, and is one of these five.
C13_VerdictPrecedence ==
    IsSome(overallResult) /\ agentResults # <<>>
        => LET v == Get(overallResult).verdict
               dangerous  == "MALICIOUS" \in InputVerdicts \/ "SCAM" \in InputVerdicts
               false      == "FALSE" \in InputVerdicts
               verified   == "TRUE" \in InputVerdicts /\ MeanAbove(80)
               suspicious == "SUSPICIOUS" \in InputVerdicts
           IN  /\ v \in {"DANGEROUS", "FALSE", "VERIFIED", "SUSPICIOUS", "UNVERIFIED"}
               /\ (v = "DANGEROUS") = dangerous
               /\ (v = "FALSE") = (~dangerous /\ false)
               /\ (v = "VERIFIED") = (~dangerous /\ ~false /\ verified)
               /\ (v = "SUSPICIOUS") = (~dangerous /\ ~false /\ ~verified /\ suspicious)
               /\ (v = "UNVERIFIED") = (~dangerous /\ ~false /\ ~verified /\ ~suspicious)

\* C13 witness: a list holding a FALSE and a SCAM verdict was aggregated to
\* DANGEROUS.
C13_Witness ==
    /\ IsSome(overallResult)
    /\ {"FALSE", "SCAM"} \subseteq InputVerdicts
    /\ Get(overallResult).verdict = "DANGEROUS"

\* C14: for a non-empty list of analyzer results with confidences in [0, 100]
\* the overall confidence is an integer nearest to the mean of the confidences
\* and lies in [0, 100].
C14_ConfidenceRoundedMean ==
    /\ IsSome(overallResult)
    /\ agentResults # <<>>
    /\ \A i \in 1..Len(agentResults) :
           agentResults[i].confidence \in 0..(100 * Scale)
    => LET confidence == Get(overallResult).confidence
           count == Len(agentResults)
           \* 2 * |confidence - mean|, times Scale * count
           twiceOff == IF confidence * Scale * count >= InputSum
                       THEN 2 * (confidence * Scale * count - InputSum)
                       ELSE 2 * (InputSum - confidence * Scale * count)
       IN  /\ confidence \in 0..100
           /\ twiceOff <= Scale * count

\* C14 witness: a mean of 89.60 was reported as 90.
C14_Witness ==
    /\ IsSome(overallResult)
    /\ Len(agentResults) = 1
    /\ InputSum = 8960
    /\ Get(overallResult).confidence = 90

\* the risk level the rule gives for a verdict and a reported confidence
RiskRule(verdict, confidence) ==
    CASE verdict = "DANGEROUS" -> "CRITICAL"
      [] verdict = "FALSE" /\ confidence > 90 -> "HIGH"
      [] verdict = "SUSPICIOUS" -> "MEDIUM"
      [] verdict = "UNVERIFIED" -> "LOW"
      [] OTHER -> "MINIMAL"

\* C15: the risk level of an overall result is the one the rule gives for its
\* verdict and its reported confidence: CRITICAL for DANGEROUS, HIGH for FALSE
\* above 90, MEDIUM for SUSPICIOUS, LOW for UNVERIFIED, MINIMAL otherwise.
C15_RiskFromVerdictAndConfidence ==
    IsSome(overallResult) /\ agentResults # <<>>
        => Get(overallResult).riskLevel =
               RiskRule(Get(overallResult).verdict, Get(overallResult).confidence)

\* the step is a call of cleanupOldVerifications
IsSweepStep == cleanupOutcome' # None

\* the record was created more than Horizon minutes before now
Older(record) == IsSome(record.startTime) /\ now - Get(record.startTime) > Horizon

NotOlder(record) == IsSome(record.startTime) /\ now - Get(record.startTime) <= Horizon

\* C16: a sweep removes the sessions created more than 60 minutes before it
\* (one created at T is gone after a sweep at T+61) and leaves in place those
\* that are not older (one created at T is kept by a sweep at T+59).
C16_SweepAtHorizon ==
    [][IsSweepStep
          => \A i \in 1..Len(activeVerifications) :
                LET e == activeVerifications[i]
                IN  /\ Older(e.value) => ~MapHas(activeVerifications', e.key)
                    /\ NotOlder(e.value)
                           => /\ MapHas(activeVerifications', e.key)
                              /\ MapGet(activeVerifications', e.key) = e.value]_vars

\* C17: a call of cleanupOldVerifications returns without raising, and after
\* it the store holds no record older than the horizon, whatever its status.
C17_SweepRemovesAllAndReturns ==
    cleanupOutcome # None
        => /\ cleanupOutcome = Some("returned")
           /\ \A e \in Entries : ~Older(e.value)

\* the call of verifyContent has stored a record and started a verification
Started(c) == calls[c].id # NoValue

\* C18: a verifyContent call whose content is empty or not a string is
\* rejected before any write: the call throws, and the store and the counter
\* are as they were.
C18_InvalidContentRejected ==
    [][\A c \in Calls :
          /\ calls[c].pc = "ready"
          /\ calls'[c].pc # "ready"
          /\ calls'[c].content \in EdgeContents
          => /\ calls'[c].pc = "thrown"
             /\ activeVerifications' = activeVerifications
             /\ totalVerifications' = totalVerifications]_vars

\* C19: getTotalVerifications() is the number of verifications started: each
\* step in which verifyContent starts one adds exactly one, every other step
\* (analyzer settles, sweep, clock) leaves the counter as it is.
C19_TotalCountsStarted ==
    [][/\ totalVerifications' = totalVerifications
              + Cardinality({c \in Calls : ~Started(c) /\ calls'[c].id # NoValue})
       /\ getTotalVerifications' = Cardinality({c \in Calls : calls'[c].id # NoValue})]_vars

\* C19 witness: two verifications were started, one call has failed, and a
\* sweep has just run.
C19_Witness ==
    /\ totalVerifications = 2
    /\ cleanupOutcome # None
    /\ \E c \in Calls : Started(c) /\ calls[c].pc = "thrown"

\* C20: getActiveVerifications() is the number of verifications started and
\* neither completed nor failed yet.
C20_ActiveCountsInFlight ==
    getActiveVerifications = Cardinality({c \in Calls : calls[c].pc = "awaiting"})

\* C21: a details query for an id that has no record in the store, because no
\* verification ever had it or because the sweep removed its record, gets no
\* record from getVerification and shows the not-found message, never a report.
C21_AbsentIdNotFound ==
    [][details' # details
          => LET id == Get(details').id
             IN  ~MapHas(activeVerifications, id)
                    => /\ getVerification(id) = None
                       /\ Get(details').view = "Verification details not found"]_vars

\* C21 witness: the details of a verification whose record the sweep removed
\* were asked for and reported as not found.
C21_Witness ==
    /\ IsSome(details)
    /\ \E c \in Calls : Started(c) /\ calls[c].id = Get(details).id
    /\ ~MapHas(activeVerifications, Get(details).id)
    /\ Get(details).view = "Verification details not found"

\* the demo scenario whose content, lower-cased, is that of the content
ScenarioIndex ==
    [content \in ScenarioContents |->
        CHOOSE i \in 1..Len(scenarios) :
            toLowerCase(scenarios[i].content) = toLowerCase(content)]

\* the overall verdict the precedence rules give when every analyzer reports
\* the same verdict with the same confidence
PrecedenceOf(verdict, confidence) ==
    CASE verdict \in {"MALICIOUS", "SCAM"} -> "DANGEROUS"
      [] verdict = "FALSE" -> "FALSE"
      [] verdict = "TRUE" /\ confidence > 80 -> "VERIFIED"
      [] verdict = "SUSPICIOUS" -> "SUSPICIOUS"
      [] OTHER -> "UNVERIFIED"

\* what the claim expects of three of the scenarios: analyzers, overall
\* verdict, confidence and risk level
Expected ==
    [i \in {1, 3, 5} |->
        CASE i = 1 -> [agents |-> {"news", "fact"}, verdict |-> "FALSE",
                       confidence |-> 95, riskLevel |-> "HIGH"]
          [] i = 3 -> [agents |-> {"news", "fact"}, verdict |-> "VERIFIED",
                       confidence |-> 87, riskLevel |-> "MINIMAL"]
          [] i = 5 -> [agents |-> {"scam"}, verdict |-> "DANGEROUS",
                       confidence |-> 99, riskLevel |-> "CRITICAL"]]

\* C22: for a content equal, up to case, to that of a demo scenario, every
\* analyzer that returned reports the verdict and the confidence of the
\* scenario, and the overall result has the verdict the precedence rules give
\* for it and the scenario's confidence; the diabetes, NASA and lottery
\* scenarios select and yield what the claim lists.
C22_ScenarioResults ==
    \A c \in Calls :
        Started(c) /\ calls[c].content \in ScenarioContents
            => LET scenario == scenarios[ScenarioIndex[calls[c].content]]
                   i == ScenarioIndex[calls[c].content]
               IN  /\ \A a \in AllAgents :
                          IsSome(calls[c].agentResults[a])
                              => /\ Get(calls[c].agentResults[a]).verdict = scenario.expectedResult
                                 /\ Get(calls[c].agentResults[a]).confidence
                                        = scenario.confidence * Scale
                   /\ i \in DOMAIN Expected => Range(calls[c].agents) = Expected[i].agents
                   /\ calls[c].pc = "returned"
                          => LET overall == Get(calls[c].overall)
                             IN  /\ overall.verdict
                                        = PrecedenceOf(scenario.expectedResult, scenario.confidence)
                                 /\ overall.confidence = scenario.confidence
                                 /\ i \in DOMAIN Expected
                                        => /\ overall.verdict = Expected[i].verdict
                                           /\ overall.confidence = Expected[i].confidence
                                           /\ overall.riskLevel = Expected[i].riskLevel

\* C22 witness: the lottery scenario typed in capitals was verified by the scam
\* analyzer alone and came out DANGEROUS / 99 / CRITICAL.
C22_Witness ==
    \E c \in Calls :
        /\ calls[c].pc = "returned"
        /\ calls[c].content = "CONGRATULATIONS! YOU WON $1M LOTTERY. SEND $500 PROCESSING FEE TO CLAIM!"
        /\ calls[c].agents = <<"scam">>
        /\ Get(calls[c].overall).verdict = "DANGEROUS"
        /\ Get(calls[c].overall).confidence = 99
        /\ Get(calls[c].overall).riskLevel = "CRITICAL"

C24_SelectorsAgree ==
    IsSome(selected) /\ IsSome(activeAgents)
        => Range(Get(selected)) = Range(Get(activeAgents))

\* the latency of the slowest of the analyzers
MaxLatency(latency, selectedAgents) ==
    CHOOSE l \in {latency[a] : a \in Range(selectedAgents)} :
        \A a \in Range(selectedAgents) : latency[a] <= l

\* C25: the time a verification takes is the latency of its slowest analyzer;
\* with two analyzers or more it is less than the sum of the latencies.
C25_TimeOfSlowest ==
    IsSome(timedRun.processingTime)
        => /\ Get(timedRun.processingTime) = MaxLatency(timedRun.latency, timedRun.agents)
           /\ Len(timedRun.agents) >= 2
                 => Get(timedRun.processingTime) < SumLatency(timedRun.latency, timedRun.agents)

\* C25 witness: a verification by five analyzers has returned after the
\* latency of its slowest one.
C25_Witness ==
    /\ timedRun.pc = "returned"
    /\ Len(timedRun.agents) = 5
    /\ Get(timedRun.processingTime) = MaxLatency(timedRun.latency, timedRun.agents)

\* C26: at most one run of VerificationApp.analyzeContent is in flight, and
\* isProcessing is true while one is.
C26_OneRunInFlight ==
    /\ Cardinality({r \in Runs : InFlight(r)}) <= 1
    /\ (\E r \in Runs : InFlight(r)) => isProcessing

\* the steps processingState may take: reset() to idle, analyzeContent to
\* planning (it resets first), then planning to processing to completed
StateStep(from, to) ==
    \/ to = "idle"
    \/ to = "planning"
    \/ from = "planning" /\ to = "processing"
    \/ from = "processing" /\ to = "completed"

\* C30: processingState only follows idle, planning, processing, completed,
\* with reset() returning it to idle, and whenever it is completed every
\* active agent has status completed and progress 100.
C30_StateOrderAndCompletion ==
    [][ /\ processingState' # processingState => StateStep(processingState, processingState')
        /\ processingState' = "completed" =>
              \A a \in Range(webActiveAgents') :
                  agentStatus'[a] = "completed" /\ agentProgress'[a] = 100 ]_vars

\* whether a content has one of the fixed suspicious phrases, and whether it
\* is the content of a scenario, whatever the case of its letters
HasPhrase ==
    [content \in StubContents |->
        \E pattern \in suspiciousPatterns : includes(toLowerCase(content), pattern)]

IsScenario ==
    [content \in StubContents |->
        \E i \in 1..Len(scenarios) : scenarioLower[i] = toLowerCase(content)]

\* the labels of an analyzer verdict: those the aggregation rules name
AnalyzerLabels == {"VERIFIED", "TRUE", "FALSE", "MALICIOUS", "SCAM", "SUSPICIOUS", "UNVERIFIED"}

\* the results the analyzers have returned: call, analyzer, result
Returned27 ==
    {<<c, a>> \in Calls \X AllAgents :
        calls[c].content \in StubContents /\ IsSome(calls[c].agentResults[a])}

\* C27: for a content that matches no scenario the result of an analyzer is
\* SUSPICIOUS with confidence in [85,95) exactly when the content has a
\* suspicious phrase and the analyzer is scam or phishing, and UNVERIFIED
\* with confidence in [50,80) otherwise; every result has a confidence in
\* [0,100] and a verdict of the label set.
C27_StubResponse ==
    \A p \in Returned27 :
        LET content == calls[p[1]].content
            r == Get(calls[p[1]].agentResults[p[2]])
        IN  /\ r.confidence >= 0 /\ r.confidence <= 100 * Scale
            /\ r.verdict \in AnalyzerLabels
            /\ ~IsScenario[content] =>
                 IF HasPhrase[content] /\ p[2] \in {"scam", "phishing"}
                 THEN /\ r.verdict = "SUSPICIOUS"
                      /\ r.confidence >= 85 * Scale /\ r.confidence < 95 * Scale
                 ELSE /\ r.verdict = "UNVERIFIED"
                      /\ r.confidence >= 50 * Scale /\ r.confidence < 80 * Scale

\* a content with a phrase has returned SUSPICIOUS from scam and UNVERIFIED
\* from news, and the call has completed
C27_Witness ==
    \E c \in Calls :
        /\ calls[c].pc = "returned"
        /\ calls[c].content = "Breaking: prince wins lottery"
        /\ IsSome(calls[c].agentResults["scam"])
        /\ Get(calls[c].agentResults["scam"]).verdict = "SUSPICIOUS"
        /\ IsSome(calls[c].agentResults["news"])
        /\ Get(calls[c].agentResults["news"]).verdict = "UNVERIFIED"

\* the ids under which verifyContent stores a record
RecordIds == SessionIds \cup {uuidv4(c) : c \in Calls}

StoredStatus(id) ==
    IF MapHas(activeVerifications, id) THEN MapGet(activeVerifications, id).status ELSE NoValue

\* C28: when the analyzers in flight settle, every record that is processing
\* becomes completed or failed, and the active count returns to 0 for good
\* once no verification is started any more.
C28_EveryVerificationEnds ==
    /\ \A id \in RecordIds :
          (StoredStatus(id) = "processing") ~> (StoredStatus(id) \in {"completed", "failed"})
    /\ <>[](getActiveVerifications = 0)

\* one verification has completed and another has failed, and none is active
C28_Witness ==
    /\ \E c \in Calls : calls[c].pc = "returned" /\ StoredStatus(calls[c].id) = "completed"
    /\ \E c \in Calls : calls[c].pc = "thrown" /\ StoredStatus(calls[c].id) = "failed"
    /\ getActiveVerifications = 0

\* what verifyContent returns for a content when it is the only call: the
\* selected analyzers, their results and the overall result, for every draw
\* of Math.random()
AloneOf ==
    [content \in StubContents |->
        LET selectedAgents == selectAgentsOf[content]
        IN  { [agents |-> selectedAgents,
               agentResults |-> [i \in 1..Len(selectedAgents) |->
                    processAgentOf[selectedAgents[i], content, random[selectedAgents[i]]]],
               overallResult |-> calculateOverallResult(
                    [i \in 1..Len(selectedAgents) |->
                        processAgentOf[selectedAgents[i], content, random[selectedAgents[i]]]])]
              : random \in [Range(selectedAgents) -> RandomDraws] }]

\* the calls whose id no other call has
OwnId(c) == calls[c].id # NoValue /\ \A d \in Calls \ {c} : calls[d].id # calls[c].id

\* the returned result of a call on an id of its own is one it returns
\* alone, and is the result stored under its id
ResultAsAlone ==
    \A c \in Calls :
        (calls[c].pc = "returned" /\ OwnId(c)) =>
            LET result == Get(calls[c].result)
                stored == getVerification(calls[c].id)
            IN  /\ result.verificationId = calls[c].id
                /\ result.content = calls[c].content
                /\ [agents |-> result.agents, agentResults |-> result.agentResults,
                    overallResult |-> result.overallResult] \in AloneOf[calls[c].content]
                /\ IsSome(stored)
                /\ Get(stored).status = "completed"
                /\ Get(stored).content = calls[c].content
                /\ Get(stored).result = calls[c].result

\* C29: verifications with distinct ids do not interfere: a step of a call
\* changes the record of its own id only, and the result a call returns and
\* stores is the one it returns alone, derived from its own content.
C29_DistinctIdsDoNotInterfere ==
    [][ /\ \A id \in RecordIds :
              getVerification(id)' # getVerification(id) =>
                  \E c \in Calls : calls'[c] # calls[c] /\ calls'[c].id = id
        /\ ResultAsAlone' ]_vars

\* two calls on different contents have both returned, one SUSPICIOUS and
\* one UNVERIFIED, each with a record of its own
C29_Witness ==
    \E c, d \in Calls :
        /\ calls[c].pc = "returned" /\ calls[d].pc = "returned"
        /\ calls[c].id # calls[d].id
        /\ calls[c].content = "URGENT: Click Here"
        /\ calls[d].content = "send money"
        /\ Get(calls[c].overall).verdict = "SUSPICIOUS"
        /\ Get(calls[d].overall).verdict = "UNVERIFIED"
        /\ Len(activeVerifications) >= 2
====
